---- MODULE Spec2Model ----
(***************************************************************************)
(* State-machine model of src/src/server.hpp: TimerTask / TimerWheel,      *)
(* Channel::HandleEvent and EventLoop (Start, RunInLoop, QueueInLoop,      *)
(* RunPendingTasks, Wakeup, ReadEventfd).                                  *)
(***************************************************************************)
EXTENDS Integers, Sequences, FiniteSets, Bags, TLC

\* ------------------------------------------------------------------ bounds
\* TimerWheel::_wheelSize, set in the constructor's initialiser list.
wheelSize == 60
\* TimerTask objects ever constructed in one behaviour of SpecWheel.
MaxObjs == 2
\* Strong references one TimerTask may hold at once (caps refresh).
MaxRefs == 2
\* Tick() calls in one behaviour of SpecWheel.
MaxTicks == 3
\* TimerTask objects ever constructed in one behaviour of SpecWheelWide.
WideObjs == 1
\* RunInLoop calls one worker thread makes in one behaviour.
MaxCalls == 1
\* Expirations of the kernel timer in one behaviour of the loop specifications.
MaxExpire == 1
\* Expirations of the kernel timer in one behaviour of SpecRefresh.
RefreshExpire == 2
\* TimerTask objects constructed in one behaviour of SpecRefresh.
RefreshObjs == 1
\* Times the user fd becomes ready in one behaviour.
MaxIo == 1
\* RunInLoop calls the loop thread itself makes in one behaviour.
MaxInline == 1
\* RunInLoop calls one worker thread makes where the queue's order is checked.
FifoCalls == 2

\* Buffer's constructor argument (the default is 1024).
BufSize == 2
\* Longest string one Write appends.
MaxWrite == 2
\* Largest capacity the Buffer may reach.
MaxCap == 4

\* Timer ids the callers use.
Ids == {1, 2}
\* Timeouts drawn in SpecWheel (the small-timeout envelope).
Timeouts == {1, 2}
\* Expiration counts one read of the timer fd may report.
Backlogs == {1, 2}
Buckets == 0..(wheelSize - 1)

\* EventLoop::_tid is thread 0, the thread that constructed the loop.
LoopThread == 0
Workers == {1, 2}
Threads == {LoopThread} \cup Workers

\* epoll event bits tested by Channel::HandleEvent
Bits == {"IN", "PRI", "OUT", "ERR", "HUP", "RDHUP"}
\* the callbacks a Channel holds
Callbacks == {"event", "read", "write", "error", "close"}
\* the self-wake channel, the timer channel and one user channel
Channels == {"ev", "tm", "io"}

VARIABLES
    tick,       \* TimerWheel::_tick
    wheel,      \* TimerWheel::_wheel    : bucket -> sequence of task objects
    taskMap,    \* TimerWheel::_taskMap  : id -> task object (weak reference)
    objs,       \* the TimerTask objects ever constructed, by allocation order
    timerfd,    \* unread expirations of TimerWheel::_timerfd
    pc,         \* the loop thread: "idle" (outside Start, or blocked in Poll),
                \* "dispatch" (the for loop of Start), "drain" (RunPendingTasks)
    active,     \* Start's local vector _active
    idx,        \* position of Start's for loop in _active
    pending,    \* EventLoop::_pending
    tasks,      \* RunPendingTasks' local queue
    eventfd,    \* the counter of EventLoop::_eventfd
    wake,       \* per thread: the task whose QueueInLoop has pushed and not yet called Wakeup
    sent,       \* per thread: RunInLoop calls made so far
    done,       \* the callbacks executed so far (a bag)
    iter,       \* what the current iteration of Start has run, in order
    expired,    \* expirations of the kernel timer so far
    revents,    \* Channel::_revents per channel
    callbacks,  \* per channel: the callbacks that are set
    calls,      \* the callbacks the last HandleEvent invoked, in order
    handled,    \* the last HandleEvent ran after the last SetRevents
    ioState,    \* the readiness of the user fd
    ioCount,    \* times the user fd became ready so far
    buffer,     \* Buffer::_buffer (its length is the capacity)
    readIdx,    \* Buffer::_read_idx
    writeIdx,   \* Buffer::_write_idx
    bufErr,     \* the last Buffer operation threw std::out_of_range
    fifo,       \* the bytes written with push and not yet consumed, in order
    out,        \* the last read: length asked, string returned, fifo before it
    wrote,      \* how the last Write made room: "inplace", "compacted" or "grown"
    chEvents,   \* Channel::_events per channel
    channels,   \* Poller::_channels : fd -> channel
    kernel,     \* the interest list of _epollfd : fd -> events
    pollErr,    \* the last epoll_ctl failed (EpollOp threw)
    waitErr,    \* errno of the last epoll_wait ("none" if it returned events)
    pollerBy,   \* the threads that have run Poller::Update or Poller::Remove
    wheelBy     \* the threads that have run _addTask, _refreshTask or _removeTask

wheelVars == <<tick, wheel, taskMap, objs, timerfd>>
loopVars == <<pc, active, idx, pending, tasks, eventfd, wake, sent, done, iter, expired>>
chanVars == <<revents, callbacks, calls, handled, ioState, ioCount>>
bufVars == <<buffer, readIdx, writeIdx, bufErr, fifo, out, wrote>>
pollVars == <<chEvents, channels, kernel, pollErr, waitErr, pollerBy, wheelBy>>
vars == <<tick, wheel, taskMap, objs, timerfd,
          pc, active, idx, pending, tasks, eventfd, wake, sent, done, iter, expired,
          revents, callbacks, calls, handled, ioState, ioCount,
          buffer, readIdx, writeIdx, bufErr, fifo, out, wrote,
          chEvents, channels, kernel, pollErr, waitErr, pollerBy, wheelBy>>

\* ------------------------------------------------------------- TimerTask
\* A TimerTask object as constructed by new TimerTask(id, timeout, task):
\* _canceled starts false; refs is the shared_ptr strong count.  The other
\* fields observe the object: ran and destroyed count the executions of
\* _task() and of the destructor, born is the cursor at construction, idle
\* counts the Tick() calls since construction or since the last refresh call
\* for the object's id (it stops when the object is destroyed), refreshed and
\* cancelReq record that refresh / cancel was called for the id while the
\* object was pending, clash that another uncancelled task with the same id
\* was pending at the same time, multi that the object has held references
\* in two buckets at once, queued that a worker's RefreshTask for the id was
\* queued before the timer fd became ready for the object's first tick.
NewTimerTask(id, timeout, c) ==
    [id |-> id, timeout |-> timeout, canceled |-> FALSE, refs |-> 0,
     destroyed |-> 0, ran |-> 0, born |-> c, idle |-> 0,
     refreshed |-> FALSE, cancelReq |-> FALSE, clash |-> FALSE, multi |-> FALSE,
     queued |-> FALSE]

\* The wheel as one value, so that the private operations compose.
WheelState == [tick |-> tick, wheel |-> wheel, taskMap |-> taskMap, objs |-> objs]

SetWheel(w) ==
    /\ tick' = w.tick
    /\ wheel' = w.wheel
    /\ taskMap' = w.taskMap
    /\ objs' = w.objs

\* The sequence <<f[1], ..., f[n]>> of a function on 1..n.
RECURSIVE SeqFrom(_, _, _)
SeqFrom(f, i, n) == IF i > n THEN <<>> ELSE <<f[i]>> \o SeqFrom(f, i + 1, n)

\* The object table with upd[o] in place of each object o of upd's domain.
Mark(w, upd) ==
    [w EXCEPT !.objs = SeqFrom([o \in DOMAIN w.objs |->
                                   IF o \in DOMAIN upd THEN upd[o] ELSE w.objs[o]],
                                1, Len(w.objs))]

\* The objects with this id that are still pending (not yet destroyed).
Pending(w, id) == {o \in DOMAIN w.objs : w.objs[o].id = id /\ w.objs[o].refs > 0}

\* std::unordered_map::erase(key)
MapErase(m, id) == [k \in (DOMAIN m) \ {id} |-> m[k]]

\* std::unordered_map::operator[] assignment
MapPut(m, id, o) == [k \in (DOMAIN m) \cup {id} |-> IF k = id THEN o ELSE m[k]]

\* std::weak_ptr::lock(): the object while a strong reference exists, else null (0)
Lock(w, o) == IF w.objs[o].refs > 0 THEN o ELSE 0

\* TimerTask::Cancel
Cancel(w, o) == [w EXCEPT !.objs[o].canceled = TRUE]

\* ~TimerTask: if (!_canceled) _task(); _release();  the release hook set by
\* _addTask erases the task's id from _taskMap.
DestroyTimerTask(w, o) ==
    LET t == w.objs[o]
    IN  [w EXCEPT !.objs[o].destroyed = @ + 1,
                  !.objs[o].ran = IF t.canceled THEN @ ELSE @ + 1,
                  !.taskMap = MapErase(w.taskMap, t.id)]

\* A release that runs the destructor whatever the count of references left.
ReleaseRefUncounted(w, o) ==
    DestroyTimerTask([w EXCEPT !.objs[o].refs = @ - 1], o)

\* Destruction of one shared_ptr<TimerTask>: the count drops, and the object
\* is destroyed when the last strong reference goes.
ReleaseRef(w, o) ==
    LET w1 == [w EXCEPT !.objs[o].refs = @ - 1]
    IN  IF w1.objs[o].refs = 0 THEN DestroyTimerTask(w1, o) ELSE w1

\* std::vector<TaskPtr>::clear(): the elements are destroyed front to back
RECURSIVE ClearBucket(_, _)
ClearBucket(w, refs) ==
    IF refs = <<>> THEN w
    ELSE ClearBucket(ReleaseRef(w, Head(refs)), Tail(refs))

\* A push_back that leaves the strong count as it was.
PushRefUncounted(w, b, o) ==
    [w EXCEPT !.wheel[b] = Append(@, o)]

\* push_back of a copy of the strong reference
PushRef(w, b, o) ==
    [w EXCEPT !.wheel[b] = Append(@, o), !.objs[o].refs = @ + 1]

\* A tick that clears the bucket under the cursor before it advances.
TickClearFirst(w) ==
    LET t1 == (w.tick + 1) % wheelSize
        Seen(o) == [w.objs[o] EXCEPT !.idle = @ + 1]
        w1 == Mark(w, [o \in {o \in DOMAIN w.objs : w.objs[o].refs > 0} |-> Seen(o)])
        w2 == [w1 EXCEPT !.tick = t1, !.wheel[w.tick] = <<>>]
    IN  ClearBucket(w2, w.wheel[w.tick])

\* ------------------------------------------------------------ TimerWheel
\* TimerWheel::Tick (every pending object sees one more tick)
Tick(w) ==
    LET t1 == (w.tick + 1) % wheelSize
        Seen(o) == [w.objs[o] EXCEPT !.idle = @ + 1]
        w1 == Mark(w, [o \in {o \in DOMAIN w.objs : w.objs[o].refs > 0} |-> Seen(o)])
        w2 == [w1 EXCEPT !.tick = t1, !.wheel[t1] = <<>>]
    IN  ClearBucket(w2, w.wheel[t1])

\* TimerWheel::_addTask
AddTaskImpl(w, id, timeout) ==
    LET o == Len(w.objs) + 1
        w1 == [w EXCEPT !.objs = Append(@, NewTimerTask(id, timeout, w.tick)),
                        !.taskMap = MapPut(@, id, o)]
    IN  PushRef(w1, (w.tick + timeout) % wheelSize, o)

\* A refresh that counts the interval from the tick to come.
RefreshTaskImplLate(w, id) ==
    IF id \in DOMAIN w.taskMap
    THEN LET pt == Lock(w, w.taskMap[id])
         IN  IF pt # 0
             THEN PushRef(w, (w.tick + w.objs[pt].timeout + 1) % wheelSize, pt)
             ELSE w
    ELSE w

\* TimerWheel::_refreshTask
RefreshTaskImpl(w, id) ==
    IF id \in DOMAIN w.taskMap
    THEN LET pt == Lock(w, w.taskMap[id])
         IN  IF pt # 0
             THEN PushRef(w, (w.tick + w.objs[pt].timeout) % wheelSize, pt)
             ELSE w
    ELSE w

\* TimerWheel::_removeTask
RemoveTaskImpl(w, id) ==
    IF id \in DOMAIN w.taskMap
    THEN LET pt == Lock(w, w.taskMap[id])
             w1 == IF pt # 0 THEN Cancel(w, pt) ELSE w
         IN  [w1 EXCEPT !.taskMap = MapErase(@, id)]
    ELSE w

\* TimerWheel::HasTask
HasTask(w, id) == id \in DOMAIN w.taskMap

\* TimerWheel::OnTime: read(_timerfd) stores the expiration count in res and
\* resets the fd; with nothing to read it fails with EAGAIN and the wheel does
\* not advance.  Otherwise Tick() runs once.
OnTime(w, res) ==
    IF res = 0 THEN w ELSE Tick(w)

\* TimerWheel::AddTask as the loop thread runs it (RunInLoop calls _addTask).
\* An id given to a new task while an uncancelled task with that id is
\* pending marks both as clashing.
AddTask(w, id, timeout) ==
    LET old == {o \in Pending(w, id) : ~w.objs[o].cancelReq}
        w1 == AddTaskImpl(w, id, timeout)
        Clash(o) == [w1.objs[o] EXCEPT !.clash = TRUE]
    IN  IF old = {} THEN w1 ELSE Mark(w1, [o \in old \cup {Len(w1.objs)} |-> Clash(o)])

\* The buckets that hold a reference to the object.
BucketsOf(w, o) ==
    {b \in Buckets : \E i \in 1..Len(w.wheel[b]) : w.wheel[b][i] = o}

\* TimerWheel::RefreshTask as the loop thread runs it.
RefreshTask(w, id) ==
    LET w1 == RefreshTaskImpl(w, id)
        Refreshed(o) == [w1.objs[o] EXCEPT !.idle = 0, !.refreshed = TRUE,
                             !.multi = @ \/ Cardinality(BucketsOf(w1, o)) > 1]
    IN  Mark(w1, [o \in Pending(w, id) |-> Refreshed(o)])

\* The callback bound by TimerWheel::AddTask, as the loop thread runs it.
AddTaskImplCall(w, t) == AddTask(w, t.id, t.d)

\* A worker's QueueInLoop for RefreshTask(id) has returned: the pending tasks
\* with that id that have seen no tick yet, while the timer fd is not ready
\* (unread = 0), are marked as refreshed in time.
NoteQueued(w, t, unread) ==
    LET InTime(o) == [w.objs[o] EXCEPT !.queued = TRUE]
    IN  IF t.op = "refresh" /\ unread = 0
        THEN Mark(w, [o \in {o \in Pending(w, t.id) : w.objs[o].born = w.tick} |-> InTime(o)])
        ELSE w

\* TimerWheel::RemoveTask as the loop thread runs it.
RemoveTask(w, id) ==
    LET w1 == RemoveTaskImpl(w, id)
        Requested(o) == [w1.objs[o] EXCEPT !.cancelReq = TRUE]
    IN  Mark(w1, [o \in Pending(w, id) |-> Requested(o)])

\* A dispatch whose error, write and close tests are independent.
HandleEventNoElse(rev, cbs) ==
    LET any == IF "event" \in cbs THEN <<"event">> ELSE <<>>
        rd  == IF rev \cap {"IN", "PRI", "RDHUP"} # {} /\ "read" \in cbs
               THEN <<"read">> ELSE <<>>
        er  == IF "ERR" \in rev /\ "error" \in cbs THEN <<"error">> ELSE <<>>
        wr  == IF "OUT" \in rev /\ "write" \in cbs THEN <<"write">> ELSE <<>>
        cl  == IF "HUP" \in rev /\ "close" \in cbs THEN <<"close">> ELSE <<>>
    IN  any \o rd \o er \o wr \o cl

\* ---------------------------------------------------------------- Buffer
\* The bytes the callers write; Nul is what std::vector<char> holds after
\* value-initialisation.
Bytes == {"a", "\n"}
Nul == "0"

\* The strings handed to Write: every string of at most MaxWrite bytes.
Strings == UNION {{SeqFrom(f, 1, n) : f \in [1..n -> Bytes]} : n \in 0..MaxWrite}

\* The first line of q, its '\n' included (empty if q has no '\n').
FirstLine(q) ==
    LET hits == {i \in 1..Len(q) : q[i] = "\n"}
    IN  IF hits = {} THEN <<>>
        ELSE SubSeq(q, 1, CHOOSE i \in hits : \A j \in hits : i <= j)

\* n value-initialised chars
RECURSIVE Zeros(_)
Zeros(n) == IF n = 0 THEN <<>> ELSE <<Nul>> \o Zeros(n - 1)

\* The Buffer object.
BufState == [buffer |-> buffer, read_idx |-> readIdx, write_idx |-> writeIdx,
             thrown |-> FALSE]

SetBuf(b) ==
    /\ buffer' = b.buffer
    /\ readIdx' = b.read_idx
    /\ writeIdx' = b.write_idx
    /\ bufErr' = b.thrown

\* Buffer::BackSize, FrontSize, ReadableSize, WritableSize
BackSize(b) == Len(b.buffer) - b.write_idx
FrontSize(b) == b.read_idx
ReadableSize(b) == b.write_idx - b.read_idx
WritableSize(b) == BackSize(b) + FrontSize(b)

\* Buffer::MoveReadIdx
MoveReadIdx(b, len) ==
    IF b.read_idx + len > b.write_idx
    THEN [b EXCEPT !.thrown = TRUE]
    ELSE [b EXCEPT !.read_idx = @ + len]

\* Buffer::MoveWriteIdx
MoveWriteIdx(b, len) ==
    IF len > BackSize(b)
    THEN [b EXCEPT !.thrown = TRUE]
    ELSE [b EXCEPT !.write_idx = @ + len]

\* std::copy of src into mem from offset at (the target lies before the
\* source or apart from it, so the bytes copied are the original ones).
CopyInto(mem, src, at) ==
    SubSeq(mem, 1, at) \o src \o SubSeq(mem, at + Len(src) + 1, Len(mem))

\* An EnsureWritable that resets the cursors without moving the bytes.
EnsureWritableNoCopy(b, len) ==
    IF len > BackSize(b)
    THEN IF len > WritableSize(b)
         THEN [b EXCEPT !.buffer = @ \o Zeros(len)]
         ELSE [b EXCEPT !.write_idx = @ - FrontSize(b), !.read_idx = 0]
    ELSE b

\* Buffer::EnsureWritable: grow by len if even the front space would not do,
\* else move the readable bytes to offset 0.
EnsureWritable(b, len) ==
    IF len > BackSize(b)
    THEN IF len > WritableSize(b)
         THEN [b EXCEPT !.buffer = @ \o Zeros(len)]
         ELSE [b EXCEPT !.buffer = CopyInto(@, SubSeq(@, b.read_idx + 1, b.write_idx), 0),
                        !.write_idx = @ - FrontSize(b),
                        !.read_idx = 0]
    ELSE b

\* Buffer::Write(data, len, push)
Write(b, data, push) ==
    LET b1 == EnsureWritable(b, Len(data))
        b2 == [b1 EXCEPT !.buffer = CopyInto(@, data, b1.write_idx)]
    IN  IF push THEN MoveWriteIdx(b2, Len(data)) ELSE b2

\* Buffer::Read(buf, len, pop): <<the Buffer, the caller's buf>> afterwards.
Read(b, dst, len, pop) ==
    IF len > ReadableSize(b) THEN <<b, dst>>
    ELSE <<IF pop THEN MoveReadIdx(b, len) ELSE b,
           SubSeq(b.buffer, b.read_idx + 1, b.read_idx + len)>>

\* Buffer::ReadAsString(len, pop): <<the Buffer, the string returned>>.
ReadAsString(b, len, pop) ==
    IF len > ReadableSize(b) THEN <<b, <<>>>>
    ELSE <<IF pop THEN MoveReadIdx(b, len) ELSE b,
           SubSeq(b.buffer, b.read_idx + 1, b.read_idx + len)>>

\* Buffer::FindCRLF: the offset of the first '\n' of the readable region, or
\* -1 for nullptr.
FindCRLF(b) ==
    LET hits == {p \in b.read_idx..(b.write_idx - 1) : b.buffer[p + 1] = "\n"}
    IN  IF hits = {} THEN -1 ELSE CHOOSE p \in hits : \A q \in hits : p <= q

\* Buffer::ReadLine(pop)
ReadLine(b, pop) ==
    LET p == FindCRLF(b)
    IN  IF p >= 0 THEN ReadAsString(b, p - b.read_idx + 1, pop) ELSE <<b, <<>>>>

\* A Clear that resets the write cursor only.
ClearWriteOnly(b) == [b EXCEPT !.write_idx = 0]

\* Buffer::Clear
Clear(b) == [b EXCEPT !.read_idx = 0, !.write_idx = 0]

\* The state after Buffer(BufSize).
InitBuffer ==
    /\ buffer = Zeros(BufSize)
    /\ readIdx = 0
    /\ writeIdx = 0
    /\ bufErr = FALSE
    /\ fifo = <<>>
    /\ out = [kind |-> "none", req |-> 0, got |-> <<>>, was |-> <<>>]
    /\ wrote = "none"

\* Write(str, push) of a string the capacity bound admits.
BufWrite(data, push) ==
    /\ Len(Write(BufState, data, push).buffer) <= MaxCap
    /\ SetBuf(Write(BufState, data, push))
    /\ fifo' = IF push THEN fifo \o data ELSE fifo
    /\ wrote' = IF Len(buffer') > Len(buffer) THEN "grown"
                ELSE IF readIdx' < readIdx THEN "compacted" ELSE "inplace"
    /\ UNCHANGED out

\* Read(buf, len, pop) into the caller's buf (which holds out.got).
BufRead(len, pop) ==
    LET r == Read(BufState, out.got, len, pop)
    IN  /\ SetBuf(r[1])
        /\ out' = [kind |-> "read", req |-> len, got |-> r[2], was |-> fifo]
        /\ fifo' = IF pop /\ len <= Len(fifo) THEN SubSeq(fifo, len + 1, Len(fifo)) ELSE fifo
        /\ UNCHANGED wrote

\* ReadAsString(len, pop)
BufReadAsString(len, pop) ==
    LET r == ReadAsString(BufState, len, pop)
    IN  /\ SetBuf(r[1])
        /\ out' = [kind |-> "string", req |-> len, got |-> r[2], was |-> fifo]
        /\ fifo' = IF pop /\ len <= Len(fifo) THEN SubSeq(fifo, len + 1, Len(fifo)) ELSE fifo
        /\ UNCHANGED wrote

\* ReadLine(pop)
BufReadLine(pop) ==
    LET r == ReadLine(BufState, pop)
    IN  /\ SetBuf(r[1])
        /\ out' = [kind |-> "line", req |-> Len(FirstLine(fifo)), got |-> r[2], was |-> fifo]
        /\ fifo' = IF pop THEN SubSeq(fifo, Len(FirstLine(fifo)) + 1, Len(fifo)) ELSE fifo
        /\ UNCHANGED wrote

\* Clear()
BufClear ==
    /\ SetBuf(Clear(BufState))
    /\ fifo' = <<>>
    /\ UNCHANGED <<out, wrote>>

\* --------------------------------------------------------------- Channel
\* Channel::HandleEvent: the callbacks it invokes, in order, for the channel's
\* _revents and the callbacks that are set.
HandleEvent(rev, cbs) ==
    LET any == IF "event" \in cbs THEN <<"event">> ELSE <<>>
        rd  == IF rev \cap {"IN", "PRI", "RDHUP"} # {} /\ "read" \in cbs
               THEN <<"read">> ELSE <<>>
        one == IF "ERR" \in rev
               THEN (IF "error" \in cbs THEN <<"error">> ELSE <<>>)
               ELSE IF "OUT" \in rev
               THEN (IF "write" \in cbs THEN <<"write">> ELSE <<>>)
               ELSE IF "HUP" \in rev
               THEN (IF "close" \in cbs THEN <<"close">> ELSE <<>>)
               ELSE <<>>
    IN  any \o rd \o one

\* The elements of a sequence.
Range(q) == {q[i] : i \in 1..Len(q)}

\* ---------------------------------------------------------------- Poller
\* Channel::GetFd: every channel wraps an fd of its own.
ChanFd(ch) == CASE ch = "ev" -> 3 [] ch = "tm" -> 5 [] OTHER -> 6
Fds == {ChanFd(ch) : ch \in Channels}

\* No entry for an fd, in _channels and in the kernel's interest list.
NoChannel == "none"
NoInterest == [reg |-> FALSE, events |-> {}]

\* The Poller object with the interest list of its _epollfd.
PollerState == [channels |-> channels, kernel |-> kernel, thrown |-> FALSE]

SetPoller(p) ==
    /\ channels' = p.channels
    /\ kernel' = p.kernel
    /\ pollErr' = p.thrown

\* Poller::EpollOp: epoll_ctl fails with EEXIST for ADD of a registered fd
\* and with ENOENT for MOD or DEL of an fd that is not registered; EpollOp
\* then throws.
EpollOp(p, op, fd, ev) ==
    CASE op = "ADD" ->
            IF p.kernel[fd].reg THEN [p EXCEPT !.thrown = TRUE]
            ELSE [p EXCEPT !.kernel[fd] = [reg |-> TRUE, events |-> ev]]
      [] op = "MOD" ->
            IF ~p.kernel[fd].reg THEN [p EXCEPT !.thrown = TRUE]
            ELSE [p EXCEPT !.kernel[fd] = [reg |-> TRUE, events |-> ev]]
      [] OTHER ->
            IF ~p.kernel[fd].reg THEN [p EXCEPT !.thrown = TRUE]
            ELSE [p EXCEPT !.kernel[fd] = NoInterest]

\* Poller::HasChannel
HasChannel(p, fd) == p.channels[fd] # NoChannel

\* A Poller::Update that does not record the channel it adds.
PollerUpdateNoEntry(p, ch, ev) ==
    IF HasChannel(p, ChanFd(ch))
    THEN EpollOp(p, "MOD", ChanFd(ch), ev)
    ELSE EpollOp(p, "ADD", ChanFd(ch), ev)

\* Poller::Update(ch), ev being ch->GetEvents()
PollerUpdate(p, ch, ev) ==
    IF HasChannel(p, ChanFd(ch))
    THEN EpollOp(p, "MOD", ChanFd(ch), ev)
    ELSE LET p1 == EpollOp(p, "ADD", ChanFd(ch), ev)
         IN  IF p1.thrown THEN p1 ELSE [p1 EXCEPT !.channels[ChanFd(ch)] = ch]

\* Poller::Remove(ch)
PollerRemove(p, ch, ev) ==
    IF HasChannel(p, ChanFd(ch))
    THEN LET p1 == EpollOp(p, "DEL", ChanFd(ch), ev)
         IN  IF p1.thrown THEN p1 ELSE [p1 EXCEPT !.channels[ChanFd(ch)] = NoChannel]
    ELSE p

\* The public operations of a Channel that reach the Poller.
ChannelOps == {"EnableRead", "DisableRead", "EnableWrite", "DisableWrite",
               "DisableAll", "Remove"}

\* Channel::_events after the operation.
NewEvents(op, ev) ==
    CASE op = "EnableRead"   -> ev \cup {"IN"}
      [] op = "DisableRead"  -> ev \ {"IN"}
      [] op = "EnableWrite"  -> ev \cup {"OUT"}
      [] op = "DisableWrite" -> ev \ {"OUT"}
      [] op = "DisableAll"   -> {}
      [] OTHER               -> ev

\* Thread th calls ch.EnableRead() .. ch.DisableAll() or ch.Remove(): the
\* channel changes _events, then Channel::Update / Remove calls
\* EventLoop::UpdateEvent / RemoveEvent, which calls the Poller on thread th.
ChannelCall(th, ch, op) ==
    LET ev == NewEvents(op, chEvents[ch])
    IN  /\ chEvents' = [chEvents EXCEPT ![ch] = ev]
        /\ IF op = "Remove"
           THEN SetPoller(PollerRemove(PollerState, ch, ev))
           ELSE SetPoller(PollerUpdate(PollerState, ch, ev))
        /\ pollerBy' = IF op = "Remove" /\ ~HasChannel(PollerState, ChanFd(ch))
                       THEN pollerBy ELSE pollerBy \cup {th}
        /\ UNCHANGED <<wheelBy, waitErr>>

\* ------------------------------------------------------------- EventLoop
\* The value of wake[th] while thread th is not inside QueueInLoop.
NoTask == [by |-> -1, n |-> 0, op |-> "none", id |-> 0, d |-> 0]

\* A thread test that takes every caller for a foreign thread.
IsInLoopThreadNever(th) == FALSE

\* EventLoop::IsInLoopThread
IsInLoopThread(th) == th = LoopThread

\* A callback bound by TimerWheel::AddTask / RefreshTask / RemoveTask, or a
\* user callback that touches nothing the loop owns ("inc"), as it runs on the
\* loop thread.
RunCallback(w, t) ==
    CASE t.op = "add"     -> AddTaskImplCall(w, t)
      [] t.op = "refresh" -> RefreshTask(w, t.id)
      [] t.op = "remove"  -> RemoveTask(w, t.id)
      [] OTHER            -> w

\* EventLoop::RunInLoop called by thread th with callback t: the owning thread
\* runs it at once; any other thread enters QueueInLoop, which pushes it onto
\* _pending under the mutex (its Wakeup is the thread's next step).  The loop
\* thread makes such calls between two iterations of Start.
RunInLoop(th, t) ==
    /\ wake[th] = NoTask
    /\ sent' = [sent EXCEPT ![th] = @ + 1]
    /\ IF IsInLoopThread(th)
       THEN /\ pc = "idle"
            /\ SetWheel(RunCallback(WheelState, t))
            /\ done' = done (+) SetToBag({t})
            /\ UNCHANGED <<pending, wake>>
       ELSE /\ pending' = Append(pending, t)
            /\ wake' = [wake EXCEPT ![th] = t]
            /\ UNCHANGED <<tick, wheel, taskMap, objs, done>>
    /\ UNCHANGED <<timerfd, pc, active, idx, tasks, eventfd, iter, expired, chanVars>>

\* A wake-up whose write does not reach the eventfd.
WakeupLost(cnt) == cnt

\* EventLoop::Wakeup: write(_eventfd, 1) adds one to the counter.
Wakeup(cnt) == cnt + 1

\* The second half of EventLoop::QueueInLoop, after the lock is released.
QueueInLoopWakeup(th) ==
    /\ wake[th] # NoTask
    /\ eventfd' = Wakeup(eventfd)
    /\ wake' = [wake EXCEPT ![th] = NoTask]
    /\ SetWheel(NoteQueued(WheelState, wake[th], timerfd))
    /\ UNCHANGED <<timerfd, pc, active, idx, pending, tasks, sent, done, iter, expired, chanVars>>

\* The kernel timer expires (it_interval = 1 s).
TimerExpire(max) ==
    /\ expired < max
    /\ expired' = expired + 1
    /\ timerfd' = timerfd + 1
    /\ UNCHANGED <<tick, wheel, taskMap, objs, pc, active, idx, pending, tasks,
                   eventfd, wake, sent, done, iter, chanVars>>

\* The user fd becomes ready with the conditions m.
IoReady(m) ==
    /\ ioCount < MaxIo
    /\ ioState = {}
    /\ ioState' = m
    /\ ioCount' = ioCount + 1
    /\ UNCHANGED <<wheelVars, loopVars, revents, callbacks, calls, handled>>

\* The events mask each channel is registered with (Channel::_events):
\* EnableRead on the self-wake and timer channels, read and write on the
\* user channel.
Events(ch) == IF ch = "io" THEN {"IN", "OUT"} ELSE {"IN"}

\* What epoll_wait reports for a channel: the conditions that hold among the
\* ones asked for; EPOLLERR and EPOLLHUP are always reported.
Reported(ch) ==
    CASE ch = "ev" -> IF eventfd > 0 THEN {"IN"} ELSE {}
      [] ch = "tm" -> IF timerfd > 0 THEN {"IN"} ELSE {}
      [] OTHER     -> ioState \cap (Events(ch) \cup {"ERR", "HUP"})

\* The orders in which epoll_wait may return the ready channels.
Orders(set) ==
    LET n == Cardinality(set)
    IN  {SeqFrom(f, 1, n) : f \in {g \in [1..n -> set] : \A i, j \in 1..n : i # j => g[i] # g[j]}}

\* Poller::Poll as Start calls it: epoll_wait blocks until a channel is ready,
\* then each ready channel gets its revents and is appended to active.
Poll ==
    /\ pc = "idle"
    /\ LET ready == {ch \in Channels : Reported(ch) # {}}
       IN  /\ ready # {}
           /\ \E order \in Orders(ready) : active' = order
           /\ revents' = [ch \in Channels |->
                             IF ch \in ready THEN Reported(ch) ELSE revents[ch]]
    /\ pc' = "dispatch"
    /\ idx' = 1
    /\ iter' = <<>>
    /\ handled' = FALSE
    /\ UNCHANGED <<wheelVars, pending, tasks, eventfd, wake, sent, done, expired,
                   callbacks, calls, ioState, ioCount>>

\* Poller::Poll when epoll_wait fails with EINTR: it returns with active empty.
PollInterrupted ==
    /\ pc = "idle"
    /\ active' = <<>>
    /\ pc' = "dispatch"
    /\ idx' = 1
    /\ iter' = <<>>
    /\ calls' = <<>>
    /\ handled' = FALSE
    /\ UNCHANGED <<wheelVars, pending, tasks, eventfd, wake, sent, done, expired,
                   revents, callbacks, ioState, ioCount>>

\* A read as of an eventfd made with EFD_SEMAPHORE: it takes one off the counter.
ReadEventfdSemaphore(cnt) == IF cnt > 0 THEN cnt - 1 ELSE cnt

\* EventLoop::ReadEventfd: the read returns the counter and resets it (with
\* the counter at zero it fails with EAGAIN and changes nothing).
ReadEventfd(cnt) == 0

\* Start's for loop has handled every channel of active.
DispatchDone(i, act) == i > Len(act)

\* An iteration over active from its back.
ActiveAtReversed(act, i) == act[Len(act) + 1 - i]

\* The channel Start's for loop handles at position i.
ActiveAt(act, i) == act[i]

\* One iteration of Start's for loop: ch->HandleEvent().  The self-wake
\* channel's read callback is ReadEventfd, the timer channel's is OnTime; the
\* user channel's callbacks consume what the fd reported.
Dispatch ==
    /\ pc = "dispatch"
    /\ ~DispatchDone(idx, active)
    /\ LET ch == ActiveAt(active, idx)
           cs == HandleEvent(revents[ch], callbacks[ch])
       IN  /\ calls' = cs
           /\ handled' = TRUE
           /\ iter' = Append(iter, [k |-> "event", ch |-> ch, t |-> NoTask])
           /\ eventfd' = IF ch = "ev" /\ "read" \in Range(cs)
                         THEN ReadEventfd(eventfd) ELSE eventfd
           /\ IF ch = "tm" /\ "read" \in Range(cs)
              THEN SetWheel(OnTime(WheelState, timerfd)) /\ timerfd' = 0
              ELSE UNCHANGED <<tick, wheel, taskMap, objs, timerfd>>
           /\ ioState' = IF ch = "io" THEN {} ELSE ioState
    /\ idx' = idx + 1
    /\ UNCHANGED <<pc, active, pending, tasks, wake, sent, done, expired,
                   revents, callbacks, ioCount>>

\* A swap that hands the callbacks over last in, first out.
SwapPendingReversed(q) ==
    <<SeqFrom([i \in 1..Len(q) |-> q[Len(q) + 1 - i]], 1, Len(q)), <<>>>>

\* A drain that copies _pending and does not clear it.
SwapPendingKeep(q) == <<q, q>>

\* What RunPendingTasks' swap under the mutex leaves in <<tasks, _pending>>.
SwapPending(q) == <<q, <<>>>>

\* EventLoop::RunPendingTasks, the swap: after the for loop of Start.
RunPendingTasks ==
    /\ pc = "dispatch"
    /\ DispatchDone(idx, active)
    /\ tasks' = SwapPending(pending)[1]
    /\ pending' = SwapPending(pending)[2]
    /\ pc' = "drain"
    /\ UNCHANGED <<wheelVars, active, idx, eventfd, wake, sent, done, iter, expired, chanVars>>

\* EventLoop::RunPendingTasks, one turn of the while loop: tasks.front()();
\* tasks.pop();  the mutex is not held.
RunTask ==
    /\ pc = "drain"
    /\ tasks # <<>>
    /\ SetWheel(RunCallback(WheelState, Head(tasks)))
    /\ done' = done (+) SetToBag({Head(tasks)})
    /\ iter' = Append(iter, [k |-> "task", ch |-> "none", t |-> Head(tasks)])
    /\ tasks' = Tail(tasks)
    /\ UNCHANGED <<timerfd, pc, active, idx, pending, eventfd, wake, sent, expired, chanVars>>

\* Start returns: _active and the local queue are gone.
StartReturn ==
    /\ pc = "drain"
    /\ tasks = <<>>
    /\ pc' = "idle"
    /\ active' = <<>>
    /\ idx' = 0
    /\ iter' = <<>>
    /\ calls' = <<>>
    /\ handled' = FALSE
    /\ UNCHANGED <<wheelVars, pending, tasks, eventfd, wake, sent, done, expired,
                   revents, callbacks, ioState, ioCount>>

\* ------------------------------------------------- the wheel, loop thread only
\* The state after TimerWheel's constructor.
InitWheel ==
    /\ tick = 0
    /\ wheel = [b \in Buckets |-> <<>>]
    /\ taskMap = <<>>
    /\ objs = <<>>
    /\ timerfd = 0

\* The state after EventLoop's constructor, on thread LoopThread.
InitLoop ==
    /\ pc = "idle"
    /\ active = <<>>
    /\ idx = 0
    /\ pending = <<>>
    /\ tasks = <<>>
    /\ eventfd = 0
    /\ wake = [th \in Threads |-> NoTask]
    /\ sent = [th \in Threads |-> 0]
    /\ done = EmptyBag
    /\ iter = <<>>
    /\ expired = 0

\* The channels after the constructors: the timer channel and the self-wake
\* channel have a read callback only and watch EPOLLIN; the user channel has
\* every callback and watches EPOLLIN and EPOLLOUT.
InitChannels ==
    /\ revents = [ch \in Channels |-> {}]
    /\ callbacks = [ch \in Channels |-> IF ch = "io" THEN Callbacks ELSE {"read"}]
    /\ calls = <<>>
    /\ handled = FALSE
    /\ ioState = {}
    /\ ioCount = 0

\* The Poller after the constructors, which run on the loop thread: every
\* channel has called EnableRead (the user channel EnableWrite too), so each
\* fd is in _channels and in the interest list with the channel's _events.
InitPoller ==
    /\ chEvents = [ch \in Channels |-> Events(ch)]
    /\ channels = [fd \in Fds |-> CHOOSE ch \in Channels : ChanFd(ch) = fd]
    /\ kernel = [fd \in Fds |->
                    [reg |-> TRUE, events |-> Events(CHOOSE ch \in Channels : ChanFd(ch) = fd)]]
    /\ pollErr = FALSE
    /\ waitErr = "none"
    /\ pollerBy = {LoopThread}
    /\ wheelBy = {}

\* The state after EventLoop's constructor (which constructs the TimerWheel
\* and both internal channels) and the user channel's.
Init == InitWheel /\ InitLoop /\ InitChannels /\ InitBuffer /\ InitPoller

\* The timer channel's read callback runs; the read reports res expirations
\* (the periodic timer, it_interval = 1 s, has expired res times since the
\* last read) and leaves the fd's count at zero.
WheelOnTime(maxTick) ==
    /\ tick < maxTick
    /\ \E res \in Backlogs : SetWheel(OnTime(WheelState, res))
    /\ timerfd' = 0

\* EventLoop::RunAfter on the owning thread: RunInLoop runs _addTask inline.
WheelRunAfter(id, timeout, maxObjs) ==
    /\ Len(objs) < maxObjs
    /\ SetWheel(AddTask(WheelState, id, timeout))
    /\ UNCHANGED timerfd

\* EventLoop::RefreshAfter on the owning thread.
WheelRefreshAfter(id) ==
    /\ id \in DOMAIN taskMap => objs[taskMap[id]].refs < MaxRefs
    /\ SetWheel(RefreshTask(WheelState, id))
    /\ UNCHANGED timerfd

\* EventLoop::RemoveAfter on the owning thread.
WheelRemoveAfter(id) ==
    /\ SetWheel(RemoveTask(WheelState, id))
    /\ UNCHANGED timerfd

ActWheel ==
    \/ WheelOnTime(MaxTicks)
    \/ \E id \in Ids, d \in Timeouts : WheelRunAfter(id, d, MaxObjs)
    \/ \E id \in Ids : WheelRefreshAfter(id)
    \/ \E id \in Ids : WheelRemoveAfter(id)

NextWheel == ActWheel /\ UNCHANGED <<loopVars, chanVars, bufVars, pollVars>>

SpecWheel == Init /\ [][NextWheel]_vars

\* The wide envelope: timeouts at both ends of the precondition 1 <= d < W,
\* and ticks without limit, so that the cursor wraps.
WideTimeouts == {1, wheelSize - 1}

ActWheelWide ==
    \/ WheelOnTime(wheelSize)
    \/ \E id \in Ids, d \in WideTimeouts : WheelRunAfter(id, d, WideObjs)
    \/ \E id \in Ids : WheelRemoveAfter(id)

NextWheelWide == ActWheelWide /\ UNCHANGED <<loopVars, chanVars, bufVars, pollVars>>

SpecWheelWide == Init /\ [][NextWheelWide]_vars

\* The envelope around the precondition's lower end: d = 0 beside d = 1.
ZeroTimeouts == {0, 1}

ActWheelZero ==
    \/ WheelOnTime(wheelSize)
    \/ \E id \in Ids, d \in ZeroTimeouts : WheelRunAfter(id, d, WideObjs)
    \/ \E id \in Ids : WheelRemoveAfter(id)

NextWheelZero == ActWheelZero /\ UNCHANGED <<loopVars, chanVars, bufVars, pollVars>>

SpecWheelZero == Init /\ [][NextWheelZero]_vars

\* The wide envelope with refresh: one task, added at cursor 0 (the ring is
\* the same from every cursor), both ends of 1 <= d < W, ticks without limit,
\* and refreshes while the task holds fewer than MaxRefs references.
ActWheelRefs ==
    \/ WheelOnTime(wheelSize)
    \/ \E id \in Ids, d \in WideTimeouts : tick = 0 /\ WheelRunAfter(id, d, WideObjs)
    \/ \E id \in Ids : WheelRefreshAfter(id)

NextWheelRefs == ActWheelRefs /\ UNCHANGED <<loopVars, chanVars, bufVars, pollVars>>

SpecWheelRefs == Init /\ [][NextWheelRefs]_vars

\* ------------------------------------------------------------ the loop
\* The conditions the user fd becomes ready with.
IoMasks == {{"IN"}, {"IN", "OUT"}, {"HUP"}}

\* A user callback handed to RunInLoop by thread th.
UserTask(th) == [by |-> th, n |-> sent[th] + 1, op |-> "inc", id |-> 0, d |-> 0]

\* The calls thread th may make.
CallLimit(th) == IF th = LoopThread THEN MaxInline ELSE MaxCalls

\* The steps of the loop thread inside Start that need no signal.
LoopStep ==
    \/ Poll
    \/ Dispatch
    \/ RunPendingTasks
    \/ RunTask
    \/ StartReturn

ActLoop ==
    \/ \E th \in Threads : sent[th] < CallLimit(th) /\ RunInLoop(th, UserTask(th))
    \/ \E th \in Threads : QueueInLoopWakeup(th)
    \/ TimerExpire(MaxExpire)
    \/ \E m \in IoMasks : IoReady(m)
    \/ PollInterrupted
    \/ LoopStep

NextLoop == ActLoop /\ UNCHANGED <<bufVars, pollVars>>

SpecLoop == Init /\ [][NextLoop]_vars

\* The loop thread keeps calling Start and is scheduled; a worker inside
\* QueueInLoop is scheduled and reaches its Wakeup.  Nothing is assumed of
\* signals, of the timer or of the user fd.
SpecLoopFair ==
    /\ SpecLoop
    /\ WF_vars(LoopStep /\ UNCHANGED <<bufVars, pollVars>>)
    /\ \A th \in Workers : WF_vars(QueueInLoopWakeup(th) /\ UNCHANGED <<bufVars, pollVars>>)

\* ------------------------------------------ the loop with a longer queue
\* The calls thread th may make here.
FifoLimit(th) == IF th = LoopThread THEN MaxInline ELSE FifoCalls

\* Threads hand callbacks to RunInLoop while the loop thread iterates; the
\* self-wake channel is the only one that becomes ready.
ActFifo ==
    \/ \E th \in Threads : sent[th] < FifoLimit(th) /\ RunInLoop(th, UserTask(th))
    \/ \E th \in Threads : QueueInLoopWakeup(th)
    \/ LoopStep

NextFifo == ActFifo /\ UNCHANGED <<bufVars, pollVars>>

SpecFifo == Init /\ [][NextFifo]_vars

\* ------------------------------------------ the loop with failing waits
\* What epoll_wait may fail with.
Errnos == {"EINTR", "EBADF"}

\* A Poll that takes every failure of epoll_wait for fatal.
OnWaitErrorThrow(errno) == "throw"

\* Poller::Poll after epoll_wait returned -1: return on EINTR, else throw.
OnWaitError(errno) == IF errno = "EINTR" THEN "return" ELSE "throw"

\* epoll_wait fails with errno: Poll returns with active untouched, or its
\* exception leaves Start.
PollWaitFailed(errno) ==
    /\ waitErr' = errno
    /\ IF OnWaitError(errno) = "return"
       THEN PollInterrupted
       ELSE /\ pc = "idle"
            /\ pc' = "failed"
            /\ UNCHANGED <<wheelVars, active, idx, pending, tasks, eventfd, wake, sent,
                           done, iter, expired, chanVars>>
    /\ UNCHANGED <<bufVars, chEvents, channels, kernel, pollErr, pollerBy, wheelBy>>

\* The steps of Start that begin or end an iteration without a failed wait.
ErrFreshStep ==
    /\ Poll \/ StartReturn
    /\ waitErr' = "none"
    /\ UNCHANGED <<bufVars, chEvents, channels, kernel, pollErr, pollerBy, wheelBy>>

ErrOtherStep ==
    /\ \/ \E th \in Workers : sent[th] < MaxCalls /\ RunInLoop(th, UserTask(th))
       \/ \E th \in Threads : QueueInLoopWakeup(th)
       \/ TimerExpire(MaxExpire)
       \/ \E m \in IoMasks : IoReady(m)
       \/ Dispatch
       \/ RunPendingTasks
       \/ RunTask
    /\ UNCHANGED <<bufVars, pollVars>>

NextLoopErr ==
    \/ \E errno \in Errnos : PollWaitFailed(errno)
    \/ ErrFreshStep
    \/ ErrOtherStep

SpecLoopErr == Init /\ [][NextLoopErr]_vars

\* ------------------------------------------- the loop with the time wheel
\* RunAfter(1, d, ...) by the loop thread.
AddCall(d) == [by |-> LoopThread, n |-> sent[LoopThread] + 1, op |-> "add", id |-> 1, d |-> d]

\* RefreshAfter(1) by thread th.
RefreshCall(th) == [by |-> th, n |-> sent[th] + 1, op |-> "refresh", id |-> 1, d |-> 0]

ActRefresh ==
    \/ \E d \in Timeouts : Len(objs) < RefreshObjs /\ RunInLoop(LoopThread, AddCall(d))
    \/ \E th \in Workers : sent[th] < MaxCalls /\ RunInLoop(th, RefreshCall(th))
    \/ \E th \in Threads : QueueInLoopWakeup(th)
    \/ TimerExpire(RefreshExpire)
    \/ PollInterrupted
    \/ LoopStep

NextRefresh == ActRefresh /\ UNCHANGED <<bufVars, pollVars>>

SpecRefresh == Init /\ [][NextRefresh]_vars

\* ---------------------------------------------------- one channel alone
\* A channel with any callbacks set, stamped with any revents.
InitOneChannel ==
    /\ revents \in [Channels -> SUBSET Bits]
    /\ \A ch \in Channels \ {"io"} : revents[ch] = {}
    /\ callbacks \in [Channels -> SUBSET Callbacks]
    /\ \A ch \in Channels \ {"io"} : callbacks[ch] = {"read"}
    /\ calls = <<>>
    /\ handled = FALSE
    /\ ioState = {}
    /\ ioCount = 0

\* Channel::SetRevents on the user channel
SetRevents(m) ==
    /\ revents' = [revents EXCEPT !["io"] = m]
    /\ calls' = <<>>
    /\ handled' = FALSE
    /\ UNCHANGED <<callbacks, ioState, ioCount>>

\* Channel::HandleEvent on the user channel
ChannelHandleEvent ==
    /\ ~handled
    /\ calls' = HandleEvent(revents["io"], callbacks["io"])
    /\ handled' = TRUE
    /\ UNCHANGED <<revents, callbacks, ioState, ioCount>>

\* A loop at rest with one user channel in any configuration.
InitChannel == InitWheel /\ InitLoop /\ InitOneChannel /\ InitBuffer /\ InitPoller

ActChannel ==
    \/ \E m \in SUBSET Bits : SetRevents(m)
    \/ ChannelHandleEvent

NextChannel == ActChannel /\ UNCHANGED <<wheelVars, loopVars, bufVars, pollVars>>

SpecChannel == InitChannel /\ [][NextChannel]_vars

\* ---------------------------------------------------- the Buffer alone
\* Lengths asked of a read: up to one more than the longest write.
ReadLens == 0..(MaxWrite + 1)

ActBuffer ==
    \/ \E data \in Strings, push \in BOOLEAN : BufWrite(data, push)
    \/ \E len \in ReadLens, pop \in BOOLEAN : BufRead(len, pop)
    \/ \E len \in ReadLens, pop \in BOOLEAN : BufReadAsString(len, pop)
    \/ \E pop \in BOOLEAN : BufReadLine(pop)
    \/ BufClear

NextBuffer == ActBuffer /\ UNCHANGED <<wheelVars, loopVars, chanVars, pollVars>>

SpecBuffer == Init /\ [][NextBuffer]_vars

\* ---------------------------------------------------- the Poller alone
\* The loop thread toggles and removes channels, in any order.
ActPoller == \E ch \in Channels, op \in ChannelOps : ChannelCall(LoopThread, ch, op)

NextPoller == ActPoller /\ UNCHANGED <<wheelVars, loopVars, chanVars, bufVars>>

SpecPoller == Init /\ [][NextPoller]_vars

\* --------------------------------------- calls from every thread, confined?
\* RunAfter(1, 1, ...), RefreshAfter(1) or RemoveAfter(1) by thread th.
TimerOps == {"add", "refresh", "remove"}
TimerCall(th, op) == [by |-> th, n |-> sent[th] + 1, op |-> op, id |-> 1, d |-> 1]

\* The thread that runs the callback of a RunInLoop call is the caller if
\* RunInLoop takes it for the owning thread; a queued callback is run by the
\* thread that runs Start, the loop thread.
ConfTimerCall(th, op) ==
    /\ sent[th] < MaxCalls
    /\ Len(objs) < MaxObjs
    /\ RunInLoop(th, TimerCall(th, op))
    /\ wheelBy' = IF IsInLoopThread(th) THEN wheelBy \cup {th} ELSE wheelBy
    /\ UNCHANGED <<bufVars, chEvents, channels, kernel, pollErr, waitErr, pollerBy>>

ConfRunTask ==
    /\ RunTask
    /\ wheelBy' = wheelBy \cup {LoopThread}
    /\ UNCHANGED <<bufVars, chEvents, channels, kernel, pollErr, waitErr, pollerBy>>

\* A toggle or Remove of the user channel by thread th.
ConfChannelCall(th, op) ==
    /\ ChannelCall(th, "io", op)
    /\ UNCHANGED <<wheelVars, loopVars, chanVars, bufVars>>

ConfLoopStep ==
    /\ \/ \E th \in Threads : QueueInLoopWakeup(th)
       \/ Poll
       \/ Dispatch
       \/ RunPendingTasks
       \/ StartReturn
    /\ UNCHANGED <<bufVars, pollVars>>

NextConfine ==
    \/ \E th \in Threads, op \in TimerOps : ConfTimerCall(th, op)
    \/ \E th \in Threads, op \in ChannelOps : ConfChannelCall(th, op)
    \/ ConfRunTask
    \/ ConfLoopStep

SpecConfine == Init /\ [][NextConfine]_vars

\* ------------------------------------------------------- claims: the wheel
ValidTimeout(d) == d \in 1..(wheelSize - 1)

\* C5: a task added with timeout d (1 <= d < W) at cursor c, never refreshed
\* and never cancelled, holds one reference, in bucket (c + d) mod W; its
\* action has not run while fewer than d ticks were processed since the add,
\* and it has run, once, when the d-th tick was processed.
C5_FiresAtDthTick ==
    \A o \in DOMAIN objs :
        LET t == objs[o]
        IN  (ValidTimeout(t.timeout) /\ ~t.refreshed /\ ~t.cancelReq /\ ~t.canceled) =>
                IF t.destroyed = 0
                THEN /\ t.idle < t.timeout
                     /\ t.idle = (tick + wheelSize - t.born) % wheelSize
                     /\ t.ran = 0
                     /\ t.refs = 1
                     /\ BucketsOf(WheelState, o) = {(t.born + t.timeout) % wheelSize}
                ELSE /\ t.destroyed = 1
                     /\ t.ran = 1
                     /\ t.idle = t.timeout

\* A task with d = W - 1, added at a cursor c > 0 (so that c + d wraps), has
\* fired at its (W - 1)-th tick.
C5_Witness ==
    \E o \in DOMAIN objs :
        /\ objs[o].timeout = wheelSize - 1
        /\ objs[o].born > 0
        /\ objs[o].ran = 1
        /\ objs[o].idle = wheelSize - 1
        /\ ~objs[o].cancelReq

\* C6: keep-alive by refresh.  For a pending task with timeout d (its id not
\* shared with another pending task, and not cancelled), the action has not
\* run while fewer than d ticks were processed since the most recent
\* refresh(id) call (or since the add), and it runs at the d-th such tick.
C6_KeepAlive ==
    \A o \in DOMAIN objs :
        LET t == objs[o]
        IN  (ValidTimeout(t.timeout) /\ ~t.clash /\ ~t.cancelReq) =>
                IF t.destroyed = 0
                THEN t.idle < t.timeout /\ t.ran = 0
                ELSE t.idle = t.timeout /\ t.ran = 1

\* C7: after cancel(id) of a pending task (its id not shared with another
\* pending task) the index does not refer to the task and its action has not
\* run, on any later tick.
C7_CancelStops ==
    \A o \in DOMAIN objs :
        (objs[o].cancelReq /\ ~objs[o].clash) =>
            /\ objs[o].ran = 0
            /\ \A id \in DOMAIN taskMap : taskMap[id] # o

\* C8: every timer task is destroyed at most once and its action runs at most
\* once (and only in its destructor); a destroyed task holds no reference.
C8_AtMostOnce ==
    \A o \in DOMAIN objs :
        /\ objs[o].destroyed <= 1
        /\ objs[o].ran <= objs[o].destroyed
        /\ objs[o].destroyed = 1 <=> objs[o].refs = 0
        /\ objs[o].destroyed = 1 => BucketsOf(WheelState, o) = {}

\* A task that held references in two buckets at once has been destroyed and
\* has run.
C8_Witness ==
    \E o \in DOMAIN objs :
        objs[o].multi /\ objs[o].destroyed = 1 /\ objs[o].ran = 1

\* ------------------------------------------------------- claims: the loop
\* Occurrences of t in the queue q.
Count(q, t) == Cardinality({i \in 1..Len(q) : q[i] = t})

\* The callbacks handed to RunInLoop that are somewhere: queued, being
\* drained, or executed.
Known == Range(pending) \cup Range(tasks) \cup BagToSet(done)

\* C1: every callback a foreign thread handed to RunInLoop is in exactly one
\* place - _pending, the queue being drained, or executed - and in one copy:
\* none is dropped and none has run twice; per worker there are as many as it
\* made calls.
C1_ExactlyOnce ==
    /\ \A t \in Known :
           t.by \in Workers =>
               Count(pending, t) + Count(tasks, t) + CopiesIn(t, done) = 1
    /\ \A th \in Workers : Cardinality({t \in Known : t.by = th}) = sent[th]

\* A worker's callback has run, and another landed in _pending while the
\* loop is inside RunPendingTasks.
C1_Witness ==
    /\ pc = "drain"
    /\ pending # <<>>
    /\ \E t \in BagToSet(done) : t.by \in Workers

\* C2: a callback a foreign thread has pushed is eventually executed, given
\* that the loop thread keeps running Start and the worker reaches Wakeup.
C2_NoLostWakeup ==
    \A th \in Workers : \A n \in 1..MaxCalls :
        (sent[th] >= n) ~> (\E t \in BagToSet(done) : t.by = th /\ t.n = n)

\* The loop is blocked in Poll with a callback queued, and the self-wake fd
\* is the only fd that is ready.
C2_Witness ==
    /\ pc = "idle"
    /\ pending # <<>>
    /\ eventfd > 0
    /\ timerfd = 0
    /\ ioState = {}

\* C3, the state part: the loop thread is never between a push and its
\* Wakeup, and no callback it handed to RunInLoop is queued.
C3_State ==
    /\ wake[LoopThread] = NoTask
    /\ \A t \in Range(pending) \cup Range(tasks) : t.by # LoopThread
    /\ Cardinality({t \in BagToSet(done) : t.by = LoopThread}) = sent[LoopThread]

\* C3, the step part: a RunInLoop call by the loop thread executes the
\* callback in the same step and leaves _pending and the eventfd alone; a call
\* by another thread appends the callback to _pending and executes nothing.
C3_Step ==
    \A th \in Threads :
        sent'[th] = sent[th] + 1 =>
            IF th = LoopThread
            THEN /\ pending' = pending
                 /\ eventfd' = eventfd
                 /\ \E t \in BagToSet(done') :
                        t.by = th /\ t.n = sent'[th] /\ done' = done (+) SetToBag({t})
            ELSE /\ done' = done
                 /\ Len(pending') = Len(pending) + 1
                 /\ pending'[Len(pending')].by = th
                 /\ SubSeq(pending', 1, Len(pending)) = pending

\* C3: RunInLoop on the owning thread runs the callback inline, with the
\* queue unchanged and no wake write; only other threads enqueue.
C3_Inline == [](C3_State) /\ [][C3_Step]_vars

\* A callback of the loop thread has run while a worker's callback waits in
\* _pending.
C3_Witness ==
    /\ pending # <<>>
    /\ \E t \in BagToSet(done) : t.by = LoopThread

\* C4: in the running iteration, the channels handled so far are the first
\* ones of active, in its order; no queued callback has run before the last
\* channel of active was handled.
C4_EventsBeforeTasks ==
    pc \in {"dispatch", "drain"} =>
        LET n == Cardinality({i \in 1..Len(iter) : iter[i].k = "event"})
        IN  /\ n <= Len(active)
            /\ \A i \in 1..Len(iter) : (i <= n) <=> (iter[i].k = "event")
            /\ \A i \in 1..n : iter[i].ch = active[i]
            /\ (pc = "drain" \/ n < Len(iter)) => n = Len(active)

\* Poll returned two channels or more, all were handled, and a queued
\* callback has run after them.
C4_Witness ==
    /\ pc = "drain"
    /\ Len(active) >= 2
    /\ Len(iter) > Len(active)

Pos(c) == IF \E i \in 1..Len(calls) : calls[i] = c
          THEN CHOOSE i \in 1..Len(calls) : calls[i] = c ELSE 0

\* C10: after HandleEvent, for any revents and with every callback set: the
\* any-event hook was invoked first; read was invoked iff one of IN, PRI,
\* RDHUP is set, and before the others; error iff ERR; write iff OUT without
\* ERR; close iff HUP without ERR and OUT; nothing was invoked twice.  A
\* callback that is not set is skipped and nothing takes its place.
C10_DispatchOrder ==
    handled =>
        LET rev == revents["io"]
            cbs == callbacks["io"]
            want == [c \in Callbacks |->
                       CASE c = "event" -> TRUE
                         [] c = "read"  -> rev \cap {"IN", "PRI", "RDHUP"} # {}
                         [] c = "error" -> "ERR" \in rev
                         [] c = "write" -> "OUT" \in rev /\ "ERR" \notin rev
                         [] c = "close" -> "HUP" \in rev /\ {"ERR", "OUT"} \cap rev = {}]
        IN  /\ \A c \in Callbacks : (Pos(c) > 0) <=> (want[c] /\ c \in cbs)
            /\ \A i, j \in 1..Len(calls) : i # j => calls[i] # calls[j]
            /\ Pos("event") <= 1
            /\ Pos("read") > 0 => Pos("read") = Pos("event") + 1
            /\ \A c \in {"error", "write", "close"} : Pos(c) > 0 => Pos(c) = Len(calls)

\* Readable, writable and hung up at once, every callback set: the hook,
\* read and write were invoked, close was not.
C10_Witness ==
    /\ handled
    /\ callbacks["io"] = Callbacks
    /\ revents["io"] = {"IN", "OUT", "HUP"}
    /\ calls = <<"event", "read", "write">>

\* ------------------------------------------------------ claims: the Buffer
\* C12: after any sequence of Write, Read / ReadAsString (with or without
\* pop, accepted or rejected), ReadLine and Clear, the cursors satisfy
\* 0 <= _read_idx <= _write_idx <= capacity.
C12_CursorOrder ==
    /\ 0 <= readIdx
    /\ readIdx <= writeIdx
    /\ writeIdx <= Len(buffer)

\* The storage has grown and is full, a prefix was consumed, and the last
\* read asked for more than was readable.
C12_Witness ==
    /\ Len(buffer) > BufSize
    /\ writeIdx = Len(buffer)
    /\ readIdx > 0
    /\ out.req > Len(out.was)

\* C13: the readable region is the bytes written (with push) and not yet
\* consumed, in the order written, however the writes made room; a read of n
\* readable bytes returns the first n of them, a ReadAsString of more returns
\* the empty string, ReadLine returns the first line.
C13_ByteFifo ==
    /\ SubSeq(buffer, readIdx + 1, writeIdx) = fifo
    /\ writeIdx - readIdx = Len(fifo)
    /\ (out.kind \in {"read", "string"} /\ out.req <= Len(out.was)) =>
           out.got = SubSeq(out.was, 1, out.req)
    /\ (out.kind = "string" /\ out.req > Len(out.was)) => out.got = <<>>
    /\ out.kind = "line" => out.got = FirstLine(out.was)

\* The last Write moved two readable bytes or more to offset 0 and appended
\* behind them.
C13_Witness ==
    /\ wrote = "compacted"
    /\ Len(fifo) >= 3
    /\ readIdx = 0

\* ------------------------------------------------------ claims: the Poller
\* C11: whatever thread calls RunAfter / RefreshAfter / RemoveAfter or a
\* Channel's toggles and Remove, the time wheel (buckets and id index) and
\* the Poller (its map and the interest list) are changed by the loop's
\* owning thread only.
C11_Confined ==
    /\ wheelBy \subseteq {LoopThread}
    /\ pollerBy \subseteq {LoopThread}

\* C14: the interest list of the epoll fd mirrors _channels: an fd is
\* registered iff it has an entry, the entry is the channel that wraps the
\* fd, the registered events are that channel's _events, and no epoll_ctl
\* has failed.
C14_PollerMirror ==
    /\ ~pollErr
    /\ \A fd \in Fds : kernel[fd].reg <=> channels[fd] # NoChannel
    /\ \A fd \in Fds :
           channels[fd] # NoChannel =>
               /\ ChanFd(channels[fd]) = fd
               /\ kernel[fd].events = chEvents[channels[fd]]

\* The user channel was removed, the timer channel's interest was widened,
\* and the self-wake channel is registered with an empty mask.
C14_Witness ==
    /\ channels[ChanFd("io")] = NoChannel
    /\ ~kernel[ChanFd("io")].reg
    /\ kernel[ChanFd("tm")] = [reg |-> TRUE, events |-> {"IN", "OUT"}]
    /\ kernel[ChanFd("ev")] = [reg |-> TRUE, events |-> {}]

\* ---------------------------------------------- claims: the wheel's limits
\* C15: RunAfter with timeout 0 is rejected: no task with timeout 0 is in
\* the id index or in a bucket, and no action of such a task has run.
C15_ZeroRejected ==
    \A o \in DOMAIN objs :
        objs[o].timeout = 0 =>
            /\ \A id \in DOMAIN taskMap : taskMap[id] # o
            /\ BucketsOf(WheelState, o) = {}
            /\ objs[o].ran = 0

\* What the code does with timeout 0: the action has run, at the tick that
\* brought the cursor back to where it was at the add.
C15_RanAfterWrap ==
    \E o \in DOMAIN objs :
        /\ objs[o].timeout = 0
        /\ objs[o].ran = 1
        /\ objs[o].idle = wheelSize
        /\ tick = objs[o].born

\* ------------------------------------------------- claims: the loop, again
\* C16, the state part: the self-wake channel is in active at most once, and
\* with the counter at zero and no thread between its push and its Wakeup, a
\* callback still in _pending is about to be drained by the running
\* iteration (it was not lost with the writes the read took together).
C16_State ==
    /\ Cardinality({i \in 1..Len(active) : active[i] = "ev"}) <= 1
    /\ (eventfd = 0 /\ pending # <<>> /\ \A th \in Threads : wake[th] = NoTask) =>
           pc = "dispatch"

\* C16, the step part: a Poll that returns reports the self-wake channel iff
\* the counter is not zero, however many writes made it so; HandleEvent of
\* the self-wake channel leaves the counter at zero.
C16_Step ==
    /\ (pc = "idle" /\ pc' = "dispatch" /\ active' # <<>>) =>
           (("ev" \in Range(active')) <=> (eventfd >= 1))
    /\ (pc = "dispatch" /\ idx' = idx + 1 /\ active[idx] = "ev") => eventfd' = 0

\* C16: k >= 1 wake writes give one readable notification of the self-wake
\* channel, whose read resets the counter; the callbacks pushed with those
\* writes are drained.
C16_Coalesce == [](C16_State) /\ [][C16_Step]_vars

\* Two workers have pushed and written, the one notification was handled and
\* the counter is back at zero, both callbacks wait for this iteration's drain.
C16_Witness ==
    /\ pc = "dispatch"
    /\ eventfd = 0
    /\ Len(pending) >= 2
    /\ \A th \in Threads : wake[th] = NoTask
    /\ \E i \in 1..Len(iter) : iter[i].ch = "ev"

\* C17, the state part: in an iteration whose wait was interrupted, active
\* is empty and no channel callback has been invoked; after any other
\* failure of the wait the loop has left Start with nothing dispatched and
\* nothing drained.
C17_State ==
    /\ waitErr = "EINTR" =>
           /\ pc \in {"dispatch", "drain"}
           /\ active = <<>>
           /\ calls = <<>>
           /\ ~handled
           /\ \A i \in 1..Len(iter) : iter[i].k = "task"
    /\ waitErr \notin {"none", "EINTR"} =>
           /\ pc = "failed"
           /\ iter = <<>>
           /\ calls = <<>>
           /\ tasks = <<>>

\* C17, the step part: the failed wait changes no channel's revents and
\* drops no queued callback; the interrupted iteration goes on to
\* RunPendingTasks, which takes all of _pending.
C17_Step ==
    /\ (waitErr' # "none" /\ pc = "idle" /\ pc' # "idle") =>
           (revents' = revents /\ pending' = pending)
    /\ (waitErr = "EINTR" /\ pc = "dispatch" /\ pc' # pc) =>
           (pc' = "drain" /\ tasks' = pending /\ pending' = <<>>)

\* C17: an interrupted wait is an iteration without events, which still
\* drains the queue; any other failure is fatal before any dispatch.
C17_Interrupted == [](C17_State) /\ [][C17_Step]_vars

\* The wait was interrupted while a channel was ready and a callback was
\* queued; the callback has run in that iteration, no channel was handled.
C17_Witness ==
    /\ waitErr = "EINTR"
    /\ pc = "drain"
    /\ iter # <<>>
    /\ eventfd > 0
    /\ timerfd > 0

\* The number of slots of bucket b that hold a reference to object o.
SlotsIn(b, o) == Cardinality({i \in 1..Len(wheel[b]) : wheel[b][i] = o})

\* The number of slots of the whole wheel that hold a reference to o.
RECURSIVE SlotsUpTo(_, _)
SlotsUpTo(b, o) == IF b < 0 THEN 0 ELSE SlotsIn(b, o) + SlotsUpTo(b - 1, o)

\* C18 as stated: a task in the id-index has one strong reference in each
\* bucket it sits in and none elsewhere; a task that has seen as many ticks
\* as its timeout without a refresh is destroyed and not in the index.
C18_OnePerBucket ==
    /\ \A id \in DOMAIN taskMap :
           LET o == taskMap[id]
           IN  /\ \A b \in Buckets : SlotsIn(b, o) <= 1
               /\ objs[o].refs = Cardinality(BucketsOf(WheelState, o))
    /\ \A o \in DOMAIN objs :
           objs[o].idle >= wheelSize => (objs[o].refs = 0 /\ objs[o].destroyed = 1)

\* C18, amended: the strong count of a task is the number of bucket slots
\* that hold it (a bucket may hold several); the task is destroyed exactly
\* when no slot holds it, which happens at the latest timeout ticks (fewer
\* than W) after the last add or refresh, and the index never refers to a
\* destroyed task.
C18_RefsAreSlots ==
    \A o \in DOMAIN objs :
        /\ objs[o].refs = SlotsUpTo(wheelSize - 1, o)
        /\ objs[o].destroyed = (IF objs[o].refs = 0 THEN 1 ELSE 0)
        /\ objs[o].idle <= objs[o].timeout
        /\ objs[o].idle = objs[o].timeout => objs[o].refs = 0
        /\ objs[o].refs = 0 =>
               \A id \in DOMAIN taskMap : taskMap[id] # o

\* A task refreshed in the tick of its add was held twice by one bucket, has
\* then seen all the ticks of its timeout and is destroyed, once.
C18_Witness ==
    \E o \in DOMAIN objs :
        /\ objs[o].refreshed
        /\ ~objs[o].multi
        /\ objs[o].timeout = wheelSize - 1
        /\ objs[o].idle = objs[o].timeout
        /\ objs[o].destroyed = 1
        /\ objs[o].ran = 1

\* A task in the index is held twice by one bucket.
C18_TwoInOneBucket ==
    \E id \in DOMAIN taskMap : \E b \in Buckets : SlotsIn(b, taskMap[id]) = 2

\* The callbacks waiting to run, oldest first: what the running drain still
\* holds, then _pending.
Waiting == tasks \o pending

\* C19, the step part: a step leaves the waiting callbacks alone, or a
\* foreign thread's enqueue puts one behind all of them, or the oldest one
\* runs; only the loop thread's own inline callbacks run otherwise.  The
\* queue of a running drain gains nothing: an enqueue during a drain lands in
\* _pending, for a later drain.
C19_Step ==
    /\ \/ /\ Waiting' = Waiting
          /\ \/ done' = done
             \/ \E t \in BagToSet(done') :
                    t.by = LoopThread /\ done' = done (+) SetToBag({t})
       \/ /\ done' = done
          /\ \E th \in Workers :
                 /\ sent'[th] = sent[th] + 1
                 /\ \E t \in Range(pending') : t.by = th /\ Waiting' = Append(Waiting, t)
       \/ /\ Waiting # <<>>
          /\ Waiting' = Tail(Waiting)
          /\ done' = done (+) SetToBag({Head(Waiting)})
    /\ pc = "drain" /\ pc' = "drain" =>
           \/ tasks' = tasks
           \/ tasks # <<>> /\ tasks' = Tail(tasks)

\* C19, the state part: while a drain has callbacks left to run, a foreign
\* thread that is not inside QueueInLoop can enqueue.
C19_State ==
    (pc = "drain" /\ tasks # <<>>) =>
        \A th \in Workers :
            (sent[th] < FifoLimit(th) /\ wake[th] = NoTask) =>
                ENABLED (RunInLoop(th, UserTask(th)) /\ UNCHANGED <<bufVars, pollVars>>)

\* C19: the queued callbacks run in the order of their enqueues, across
\* drains as well, and an enqueue does not wait for a running callback.
C19_Fifo == [](C19_State) /\ [][C19_Step]_vars

\* A drain has run the older of two callbacks and still holds the other,
\* while a callback enqueued during that drain waits in _pending.
C19_Witness ==
    /\ pc = "drain"
    /\ tasks # <<>>
    /\ pending # <<>>
    /\ \E i \in 1..Len(iter) : iter[i].k = "task"

\* C20: the cursor has advanced once for every expiration of the timer
\* that a read of the timer fd has delivered, so the cursor and the
\* expirations not yet read add up to the expirations elapsed, modulo W.
C20_OnePerExpiration ==
    (tick + timerfd) % wheelSize = expired % wheelSize

\* One read of the timer fd has delivered two expirations: the cursor has
\* advanced once.
C20_CursorLags ==
    /\ expired = 2
    /\ timerfd = 0
    /\ tick = 1

\* C21: the id-index agrees with the buckets when ids are reused: HasTask(id)
\* is true exactly when some bucket holds a task with that id that is not
\* cancelled.
C21_IndexConsistent ==
    \A id \in Ids :
        HasTask(WheelState, id) <=>
            \E o \in Pending(WheelState, id) : ~objs[o].canceled

\* An older task with a reused id has been destroyed while the newer task
\* with that id is pending and not cancelled: the index has lost the id.
C21_NewerLostEntry ==
    \E o \in DOMAIN objs, n \in DOMAIN objs :
        /\ o < n
        /\ objs[o].id = objs[n].id
        /\ objs[o].destroyed = 1
        /\ objs[n].refs > 0
        /\ ~objs[n].canceled
        /\ ~HasTask(WheelState, objs[n].id)

====
